---- MODULE Spec2Model ----
(***************************************************************************)
(* A model of AddonInfo (cli/src/analysis/index.js): the construction      *)
(* pipeline AddonInfo.create and the derived queries of the context.       *)
(*                                                                         *)
(* JavaScript values are records tagged with their type (field t).  A      *)
(* string is the sequence of its pieces: the characters of a package name  *)
(* or of a path, over which split and replace work, and the literals of    *)
(* the source, each one piece (no literal contains '@' or '/').            *)
(***************************************************************************)
EXTENDS Integers, Sequences, FiniteSets, TLC

VARIABLES pc, options, locals, calls, outcome, scratch, infos, cwd, last

vars == <<pc, options, locals, calls, outcome, scratch, infos, cwd, last>>

(***************************************************************************)
(* Bounds                                                                  *)
(***************************************************************************)
\* longest scope and longest base name of a package name, in characters
MaxSeg == 2
\* longest keyword list of a manifest
MaxKeywords == 2

(***************************************************************************)
(* JavaScript values                                                       *)
(***************************************************************************)
Undef == [t |-> "undefined"]
Null == [t |-> "null"]
Fn == [t |-> "function"]
Str(s) == [t |-> "string", v |-> s]
Num(n) == [t |-> "number", v |-> n]
JBool(b) == [t |-> "boolean", v |-> b]
Arr(s) == [t |-> "array", v |-> s]
Obj(f) == [t |-> "object", v |-> f]

EmptyObject == [k \in {} |-> Undef]

\* Boolean(x)
Truthy(x) ==
  CASE x.t = "undefined" -> FALSE
    [] x.t = "null" -> FALSE
    [] x.t = "boolean" -> x.v
    [] x.t = "number" -> x.v # 0
    [] x.t = "string" -> Len(x.v) # 0
    [] OTHER -> TRUE

\* a || b
Or(a, b) == IF Truthy(a) THEN a ELSE b

\* a ?? b
Nullish(a, b) == IF a.t \in {"undefined", "null"} THEN b ELSE a

\* a === b, on the values of this model (no two objects share an identity)
StrictEq(a, b) == a.t = b.t /\ a.t \in {"undefined", "null", "boolean", "number", "string"} /\ a = b

\* the names every object inherits from Object.prototype, among DepNames
ObjectPrototypeKeys == {"constructor"}

\* obj?.[key]
OptGet(obj, key) ==
  IF obj.t \in {"undefined", "null"} THEN Undef
  ELSE IF key \in DOMAIN obj.v THEN obj.v[key]
  ELSE IF key \in ObjectPrototypeKeys THEN Fn
  ELSE Undef

\* 'key' in obj, for a parsed JSON object
HasProperty(obj, key) == key \in DOMAIN obj.v \/ key \in ObjectPrototypeKeys

\* Object.keys(obj)
ObjectKeys(obj) == IF obj.t = "object" THEN DOMAIN obj.v ELSE {}

\* arr?.includes(x)
OptIncludes(arr, x) ==
  IF arr.t \in {"undefined", "null"} THEN Undef
  ELSE JBool(\E i \in 1..Len(arr.v) : StrictEq(arr.v[i], x))

\* the index of the first piece of s equal to c, 0 when there is none
IndexOf(s, c) ==
  IF \E i \in 1..Len(s) : s[i] = c
  THEN CHOOSE i \in 1..Len(s) : s[i] = c /\ \A j \in 1..(i - 1) : s[j] # c
  ELSE 0

\* s.replace(c, r) with a string pattern: the first occurrence only
Replace(s, c, r) ==
  LET i == IndexOf(s, c)
  IN IF i = 0 THEN s ELSE SubSeq(s, 1, i - 1) \o r \o SubSeq(s, i + 1, Len(s))

RECURSIVE Split(_, _)
\* s.split(c): the pieces between the occurrences of c
Split(s, c) ==
  LET i == IndexOf(s, c)
  IN IF i = 0 THEN <<s>>
     ELSE <<SubSeq(s, 1, i - 1)>> \o Split(SubSeq(s, i + 1, Len(s)), c)

\* parts[i] with JavaScript's index from 0, undefined past the end
At(parts, i) == IF i + 1 \in 1..Len(parts) THEN Str(parts[i + 1]) ELSE Undef


(***************************************************************************)
(* Input domains                                                           *)
(***************************************************************************)
NameChars == {"a", "b"}

Segs == UNION {[1..n -> NameChars] : n \in 1..MaxSeg}

\* package names as npm admits them: "name" and "@scope/name"
Scoped(scope, base) == <<"@">> \o scope \o <<"/">> \o base

Names == Segs \cup {Scoped(s, n) : s \in Segs, n \in Segs}

\* the two names of the documentation: an unscoped one and "@limber/ui"-like
SampleNames == {<<"a">>, Scoped(<<"a">>, <<"b">>)}

\* an option of the command line: not given, empty, given
OptionValues == {Undef, Str(<<>>), Str(<<"o">>)}

Paths == {<<"/", "r">>, <<"/", "r", "/", "p">>, <<"/", "q">>}

TmpDirs == {<<"/", "t", "1">>, <<"/", "t", "2">>}

Managers == {"npm", "yarn", "pnpm"}

DepNames == {"typescript", "ember-source", "constructor"}

\* version ranges of a dependency map; "" is npm's "any version"
Ranges == {Str(<<>>), Str(<<"^", "1">>)}

DepMaps == {Undef} \cup {Obj(f) : f \in UNION {[S -> Ranges] : S \in SUBSET DepNames}}

KeywordValues == {Str(<<"ember-addon">>), Str(<<"ember">>)}

KeywordLists == {Undef} \cup {Arr(k) : k \in UNION {[1..n -> KeywordValues] : n \in 0..MaxKeywords}}

\* the 'ember-addon' block: absent, null, or an object with or without a version tag
EmberAddonBlocks ==
  {Undef, Null, Obj(EmptyObject), Obj([k \in {"main"} |-> Str(<<"index.js">>)])}
    \cup {Obj([k \in {"version"} |-> v]) : v \in {Num(1), Num(2), Str(<<"2">>)}}

\* the 'ember' block: absent, or an object
EmberBlocks == {Undef, Obj([k \in {"edition"} |-> Str(<<"octane">>)])}

PackageJson(pkgName, emberAddon, ember, keywords, dependencies, devDependencies) ==
  [name |-> Str(pkgName), ember |-> ember, keywords |-> keywords,
   dependencies |-> dependencies, devDependencies |-> devDependencies]
    @@ ("ember-addon" :> emberAddon)

Options(directory, addonLocation, testAppLocation, testAppName) ==
  [directory |-> directory, addonLocation |-> addonLocation,
   testAppLocation |-> testAppLocation, testAppName |-> testAppName]

ResolvedInfo(packageJson, opts, manager, managerRoot, repoRoot, tmp, imported) ==
  [packageJson |-> packageJson, options |-> opts, packageManager |-> manager,
   packageManagerRoot |-> managerRoot, repoRoot |-> repoRoot,
   tmpDirectory |-> tmp, importedDependencies |-> imported]

(***************************************************************************)
(* AddonInfo: the constructor and the getters                              *)
(***************************************************************************)
\* new AddonInfo(resolvedInfo)
AddonInfo(resolvedInfo) ==
  [packageJson |-> resolvedInfo.packageJson,
   options |-> resolvedInfo.options,
   packageManager |-> resolvedInfo.packageManager,
   packageManagerRoot |-> resolvedInfo.packageManagerRoot,
   gitRoot |-> resolvedInfo.repoRoot,
   tmpDirectory |-> resolvedInfo.tmpDirectory,
   importedDependencies |-> resolvedInfo.importedDependencies]

\* Object.keys({...dependencies, ...devDependencies})
localDependencyNames(info) ==
  ObjectKeys(info.packageJson.dependencies) \cup ObjectKeys(info.packageJson.devDependencies)

name(info) == info.packageJson.name

isTS(info) == JBool("typescript" \in localDependencyNames(info))

isYarn(info) == JBool(info.packageManager = "yarn")

isNpm(info) == JBool(info.packageManager = "npm")

isPnpm(info) == JBool(info.packageManager = "pnpm")

isEmber(info) ==
  JBool(Truthy(Or(info.packageJson["ember-addon"], info.packageJson.ember)))

isAddon(info) ==
  JBool(isEmber(info).v
        /\ Truthy(OptIncludes(info.packageJson.keywords, Str(<<"ember-addon">>))))

\* isV2Addon with the version tag's presence taken for the tag being 2
isV2AddonAnyVersion(info) ==
  IF ~isAddon(info).v THEN JBool(FALSE)
  ELSE LET emberAddon == info.packageJson["ember-addon"]
       IN JBool(Truthy(emberAddon) /\ HasProperty(emberAddon, "version"))

\* isV2Addon with == in place of ===: the string "2" passes for the number 2
isV2AddonLoose(info) ==
  IF ~isAddon(info).v THEN JBool(FALSE)
  ELSE LET emberAddon == info.packageJson["ember-addon"]
       IN IF Truthy(emberAddon) /\ HasProperty(emberAddon, "version")
          THEN LET version == emberAddon.v["version"]
               IN JBool(StrictEq(version, Num(2)) \/ StrictEq(version, Str(<<"2">>)))
          ELSE JBool(FALSE)

isV2Addon(info) ==
  IF ~isAddon(info).v THEN JBool(FALSE)
  ELSE LET emberAddon == info.packageJson["ember-addon"]
       IN IF Truthy(emberAddon) /\ HasProperty(emberAddon, "version")
          THEN JBool(StrictEq(emberAddon.v["version"], Num(2)))
          ELSE JBool(FALSE)

isV1Addon(info) == JBool(isAddon(info).v /\ ~isV2Addon(info).v)

\* isBiggerMonorepo comparing the two roots by their length alone
isBiggerMonorepoByLength(info) ==
  JBool(Len(info.packageManagerRoot) # Len(info.gitRoot))

isBiggerMonorepo(info) == JBool(info.packageManagerRoot # info.gitRoot)

directory(info) == Or(info.options.directory, Str(cwd))

tmpLocation(info) == Str(info.tmpDirectory)

\* addonLocation taking the scope, split('/')[0], for the base name
addonLocationScope(info) ==
  IF isBiggerMonorepo(info).v
  THEN Or(info.options.addonLocation, Str(<<"pacakge">>))
  ELSE Or(info.options.addonLocation,
          Nullish(At(Split(name(info).v, "/"), 0), name(info)))

addonLocation(info) ==
  IF isBiggerMonorepo(info).v
  THEN Or(info.options.addonLocation, Str(<<"pacakge">>))
  ELSE Or(info.options.addonLocation,
          Nullish(At(Split(name(info).v, "/"), 1), name(info)))

\* testAppLocation resolved against the working directory of the call
testAppLocationInCwd(info) ==
  Or(info.options.testAppLocation, Str(cwd \o <<"/", "test-app">>))

testAppLocation(info) == Or(info.options.testAppLocation, Str(<<"test-app">>))

\* pathifyNpmName keeping the '@'
pathifyNpmNameKeepAt(n) == Replace(n, "/", <<"__">>)

pathifyNpmName(n) == Replace(Replace(n, "@", <<>>), "/", <<"__">>)

testAppName(info) ==
  IF isBiggerMonorepo(info).v
  THEN Or(info.options.testAppName,
          Str(<<"test-app-for-">> \o pathifyNpmName(name(info).v)))
  ELSE Or(info.options.testAppName, Str(<<"test-app">>))

hasDependency(info, dep) == JBool(Truthy(OptGet(info.packageJson.dependencies, dep)))

hasDevDependency(info, dep) == JBool(Truthy(OptGet(info.packageJson.devDependencies, dep)))

(***************************************************************************)
(* Queries of a constructed context                                        *)
(***************************************************************************)
NoArg == "none"

Getters ==
  {"name", "isTS", "isYarn", "isNpm", "isPnpm", "isEmber", "isAddon", "isV1Addon",
   "isV2Addon", "isBiggerMonorepo", "directory", "tmpLocation", "addonLocation",
   "testAppLocation", "testAppName"}

Queries ==
  {[q |-> g, arg |-> NoArg] : g \in Getters}
    \cup {[q |-> m, arg |-> d] : m \in {"hasDependency", "hasDevDependency"}, d \in DepNames}

\* the value the query q gives on the context info
Answer(info, q, arg) ==
  CASE q = "name" -> name(info)
    [] q = "isTS" -> isTS(info)
    [] q = "isYarn" -> isYarn(info)
    [] q = "isNpm" -> isNpm(info)
    [] q = "isPnpm" -> isPnpm(info)
    [] q = "isEmber" -> isEmber(info)
    [] q = "isAddon" -> isAddon(info)
    [] q = "isV1Addon" -> isV1Addon(info)
    [] q = "isV2Addon" -> isV2Addon(info)
    [] q = "isBiggerMonorepo" -> isBiggerMonorepo(info)
    [] q = "directory" -> directory(info)
    [] q = "tmpLocation" -> tmpLocation(info)
    [] q = "addonLocation" -> addonLocation(info)
    [] q = "testAppLocation" -> testAppLocation(info)
    [] q = "testAppName" -> testAppName(info)
    [] q = "hasDependency" -> hasDependency(info, arg)
    [] q = "hasDevDependency" -> hasDevDependency(info, arg)

NoAnswer == [q |-> "none", arg |-> NoArg, result |-> Undef]

Answered(q, arg, result) == [q |-> q, arg |-> arg, result |-> result]

\* a caller reads one getter, or calls one predicate, of the context i
Ask(i, q, arg) ==
  /\ pc = "constructed"
  /\ last' = [last EXCEPT ![i] = Answered(q, arg, Answer(infos[i], q, arg))]
  /\ UNCHANGED <<pc, options, locals, calls, outcome, scratch, infos, cwd>>

\* process.chdir(d), by any code of the process
Chdir(d) ==
  /\ pc = "constructed"
  /\ d # cwd
  /\ cwd' = d
  /\ UNCHANGED <<pc, options, locals, calls, outcome, scratch, infos, last>>

(***************************************************************************)
(* AddonInfo.create                                                        *)
(***************************************************************************)
ManifestMessage ==
  "Could not read the package.json. Please either run ember-addon-migrator from a package directory, or specify a path to a package directory via --directory"

RepoMessage == "Could not find git root. Only git is supported at this time."

PackageManagerMessage ==
  "Could not determine package manager. Only npm, yarn, and pnpm are supported at this time."

V2Message == " is already a V2 addon. Migration will stop."

\* the error tryOrFail raises when the wrapped gatherer fails
TryOrFailError(message) ==
  [class |-> CASE message = ManifestMessage -> "ManifestReadError"
               [] message = RepoMessage -> "RepoDiscoveryError"
               [] message = PackageManagerMessage -> "PackageManagerError",
   message |-> <<message>>]

\* new NothingToDoError(message)
NothingToDoError(message) == [class |-> "NothingToDoError", message |-> message]

\* the error of a gatherer awaited outside tryOrFail: it leaves create as it is
Rejection(fn) == [class |-> "Error", message |-> <<fn>>]

\* what analyzeImports resolves to: a set of module names, possibly empty
ImportedDependencies == {{}, {"ember-source"}}

\* what createTmp resolves to: a directory that did not exist
FreshTmpDirs(existing) == TmpDirs \ existing

Pending == [kind |-> "pending"]
Return(info) == [kind |-> "return", value |-> info]
Throw(error) == [kind |-> "throw", error |-> error]

NoLocals ==
  [pkgJson |-> Undef, repoRoot |-> Undef, packageManager |-> Undef,
   importedDependencies |-> Undef, tmpDirectory |-> Undef]

Call(fn, ok) == [fn |-> fn, ok |-> ok]

\* the manifests packageJson.read() may find
Manifests ==
  {PackageJson(n, ea, e, kw, Undef, Undef) :
     n \in SampleNames, ea \in EmberAddonBlocks, e \in EmberBlocks, kw \in KeywordLists}

\* the argument of new AddonInfo(...) in create
Resolved(l, opts) ==
  ResolvedInfo(l.pkgJson, opts, l.packageManager.manager, l.packageManager.root,
               l.repoRoot, l.tmpDirectory, l.importedDependencies)

ReadPackageJson ==
  /\ pc = "readPackageJson"
  /\ \E ok \in BOOLEAN :
       /\ calls' = Append(calls, Call("packageJson.read", ok))
       /\ IF ok
          THEN /\ \E pj \in Manifests : locals' = [locals EXCEPT !.pkgJson = pj]
               /\ pc' = "findRoot"
               /\ UNCHANGED outcome
          ELSE /\ outcome' = Throw(TryOrFailError(ManifestMessage))
               /\ pc' = "done"
               /\ UNCHANGED locals
  /\ UNCHANGED <<options, scratch, infos, cwd, last>>

FindRoot ==
  /\ pc = "findRoot"
  /\ \E ok \in BOOLEAN :
       /\ calls' = Append(calls, Call("findRoot", ok))
       /\ IF ok
          THEN /\ \E root \in Paths : locals' = [locals EXCEPT !.repoRoot = root]
               /\ pc' = "guessPackageManager"
               /\ UNCHANGED outcome
          ELSE /\ outcome' = Throw(TryOrFailError(RepoMessage))
               /\ pc' = "done"
               /\ UNCHANGED locals
  /\ UNCHANGED <<options, scratch, infos, cwd, last>>

GuessPackageManager ==
  /\ pc = "guessPackageManager"
  /\ \E ok \in BOOLEAN :
       /\ calls' = Append(calls, Call("guessPackageManager", ok))
       /\ IF ok
          THEN /\ \E m \in Managers, root \in Paths :
                    locals' = [locals EXCEPT !.packageManager = [manager |-> m, root |-> root]]
               /\ pc' = "analyzeImports"
               /\ UNCHANGED outcome
          ELSE /\ outcome' = Throw(TryOrFailError(PackageManagerMessage))
               /\ pc' = "done"
               /\ UNCHANGED locals
  /\ UNCHANGED <<options, scratch, infos, cwd, last>>

AnalyzeImports ==
  /\ pc = "analyzeImports"
  /\ \E ok \in BOOLEAN :
       /\ calls' = Append(calls, Call("analyzeImports", ok))
       /\ IF ok
          THEN /\ \E deps \in ImportedDependencies :
                    locals' = [locals EXCEPT !.importedDependencies = deps]
               /\ pc' = "createTmp"
               /\ UNCHANGED outcome
          ELSE /\ outcome' = Throw(Rejection("analyzeImports"))
               /\ pc' = "done"
               /\ UNCHANGED locals
  /\ UNCHANGED <<options, scratch, infos, cwd, last>>

CreateTmp ==
  /\ pc = "createTmp"
  /\ \E ok \in BOOLEAN :
       /\ calls' = Append(calls, Call("createTmp", ok))
       /\ IF ok
          THEN /\ \E dir \in FreshTmpDirs(scratch) :
                    /\ scratch' = scratch \cup {dir}
                    /\ locals' = [locals EXCEPT !.tmpDirectory = dir]
               /\ pc' = "construct"
               /\ UNCHANGED outcome
          ELSE /\ outcome' = Throw(Rejection("createTmp"))
               /\ pc' = "done"
               /\ UNCHANGED <<locals, scratch>>
  /\ UNCHANGED <<options, infos, cwd, last>>

\* new AddonInfo(...), the isV2Addon check, and the return
Construct ==
  /\ pc = "construct"
  /\ LET info == AddonInfo(Resolved(locals, options))
     IN /\ infos' = <<info>>
        /\ last' = <<Answered("isV2Addon", NoArg, isV2Addon(info))>>
        /\ outcome' = IF isV2Addon(info).v
                      THEN Throw(NothingToDoError(name(info).v \o <<V2Message>>))
                      ELSE Return(info)
  /\ pc' = "done"
  /\ UNCHANGED <<options, locals, calls, scratch, cwd>>

(***************************************************************************)
(* Specifications                                                          *)
(***************************************************************************)
NoOptions == Options(Undef, Undef, Undef, Undef)

\* a call of AddonInfo.create(options)
Init ==
  /\ pc = "readPackageJson"
  /\ options = NoOptions
  /\ locals = NoLocals
  /\ calls = <<>>
  /\ outcome = Pending
  /\ scratch \in {{}, {<<"/", "t", "1">>}}
  /\ infos = <<>>
  /\ cwd = <<"/", "r">>
  /\ last = <<>>

Next ==
  \/ ReadPackageJson
  \/ FindRoot
  \/ GuessPackageManager
  \/ AnalyzeImports
  \/ CreateTmp
  \/ Construct

Spec == Init /\ [][Next]_vars

\* n contexts constructed from the facts l and the options opts
Constructed(l, opts, n) ==
  /\ pc = "constructed"
  /\ options = opts
  /\ locals = l
  /\ calls = <<>>
  /\ outcome = Pending
  /\ scratch = {l.tmpDirectory}
  /\ infos = [i \in 1..n |-> AddonInfo(Resolved(l, opts))]
  /\ last = [i \in 1..n |-> NoAnswer]

Facts(pj, gitRoot, manager, pmRoot) ==
  [pkgJson |-> pj, repoRoot |-> gitRoot,
   packageManager |-> [manager |-> manager, root |-> pmRoot],
   importedDependencies |-> {}, tmpDirectory |-> <<"/", "t", "1">>]

\* the queries named in Q, asked in any order, any number of times
AskAny(Q) ==
  \E i \in DOMAIN infos, query \in {x \in Queries : x.q \in Q} : Ask(i, query.q, query.arg)

\* the classification getters, over every manifest
InitClassify ==
  /\ cwd = <<"/", "r">>
  /\ \E pj \in Manifests :
       Constructed(Facts(pj, <<"/", "r">>, "pnpm", <<"/", "r">>), NoOptions, 1)

NextClassify == AskAny({"isEmber", "isAddon", "isV1Addon", "isV2Addon"})

SpecClassify == InitClassify /\ [][NextClassify]_vars

\* the path getters, over every package name, option and pair of roots
InitPaths ==
  /\ cwd = <<"/", "r">>
  /\ \E n \in Names, gitRoot \in {<<"/", "r">>, <<"/", "q">>}, pmRoot \in Paths,
        location \in OptionValues, appName \in OptionValues :
       Constructed(
         Facts(PackageJson(n, Obj(EmptyObject), Undef, Arr(<<Str(<<"ember-addon">>)>>),
                           Undef, Undef),
               gitRoot, "pnpm", pmRoot),
         Options(Undef, location, Undef, appName), 1)

NextPaths == AskAny({"isBiggerMonorepo", "addonLocation", "testAppName"})

SpecPaths == InitPaths /\ [][NextPaths]_vars

\* the dependency predicates, over every pair of dependency maps
InitDeps ==
  /\ cwd = <<"/", "r">>
  /\ \E deps \in DepMaps, devDeps \in DepMaps :
       Constructed(
         Facts(PackageJson(<<"a">>, Obj(EmptyObject), Undef, Arr(<<Str(<<"ember-addon">>)>>),
                           deps, devDeps),
               <<"/", "r">>, "pnpm", <<"/", "r">>),
         NoOptions, 1)

NextDeps == AskAny({"hasDependency", "hasDevDependency", "isTS"})

SpecDeps == InitDeps /\ [][NextDeps]_vars

\* two contexts holding the same facts, queried while the process changes directory
InitQuery ==
  /\ cwd = <<"/", "r">>
  /\ \E pmRoot \in {<<"/", "r">>, <<"/", "q">>},
        dir \in OptionValues, appLocation \in {Undef, Str(<<"o">>)} :
       Constructed(
         Facts(PackageJson(Scoped(<<"a">>, <<"b">>), Obj(EmptyObject), Undef,
                           Arr(<<Str(<<"ember-addon">>)>>),
                           Obj([k \in {"typescript"} |-> Str(<<"^", "1">>)]), Undef),
               <<"/", "r">>, "yarn", pmRoot),
         Options(dir, Undef, appLocation, Undef), 2)

NextQuery ==
  \/ AskAny(Getters \cup {"hasDependency", "hasDevDependency"})
  \/ \E d \in Paths : Chdir(d)

SpecQuery == InitQuery /\ [][NextQuery]_vars

(***************************************************************************)
(* The vocabulary of the claims                                            *)
(***************************************************************************)
\* the manifest has an Ember marker: an 'ember-addon' or an 'ember' block
HasEmberMarker(pj) == pj["ember-addon"].t = "object" \/ pj.ember.t = "object"

\* the manifest's keyword list contains 'ember-addon'
HasAddonKeyword(pj) ==
  /\ pj.keywords.t = "array"
  /\ \E k \in 1..Len(pj.keywords.v) : pj.keywords.v[k].v = <<"ember-addon">>

\* the manifest's 'ember-addon' block has a version tag, and it is the number 2
VersionTagIs2(pj) ==
  /\ pj["ember-addon"].t = "object"
  /\ "version" \in DOMAIN pj["ember-addon"].v
  /\ pj["ember-addon"].v["version"].t = "number"
  /\ pj["ember-addon"].v["version"].v = 2

V2Manifest(pj) == HasEmberMarker(pj) /\ HasAddonKeyword(pj) /\ VersionTagIs2(pj)

\* an option is supplied: a non-empty string
Supplied(option) == option.t = "string" /\ Len(option.v) > 0

\* the two roots differ, as values: in length or at some position
Differ(a, b) == Len(a) # Len(b) \/ \E k \in 1..Len(a) : a[k] # b[k]

IsScoped(n) == \E s \in Segs, b \in Segs : n = Scoped(s, b)

ScopeOf(n) == CHOOSE s \in Segs : \E b \in Segs : n = Scoped(s, b)

BaseOf(n) == CHOOSE b \in Segs : \E s \in Segs : n = Scoped(s, b)

StepOrder ==
  <<"packageJson.read", "findRoot", "guessPackageManager", "analyzeImports", "createTmp">>

Taxonomy ==
  {"ManifestReadError", "RepoDiscoveryError", "PackageManagerError", "NothingToDoError"}

AllGatherersSucceeded ==
  Len(calls) = Len(StepOrder) /\ \A k \in 1..Len(calls) : calls[k].ok

CreatedScratch == \E k \in 1..Len(calls) : calls[k] = Call("createTmp", TRUE)

(***************************************************************************)
(* Claims about AddonInfo.create, under Spec                               *)
(***************************************************************************)
\* C1: create never returns a context whose manifest is a v2 addon; when every
\* gatherer succeeds, a v2 manifest ends construction with NothingToDoError whose
\* message starts with the package name, and any other manifest is returned in
\* its context.
C1_NeverReturnsV2 ==
  /\ outcome.kind = "return" => ~V2Manifest(outcome.value.packageJson)
  /\ (pc = "done" /\ AllGatherersSucceeded) =>
       IF V2Manifest(locals.pkgJson)
       THEN /\ outcome.kind = "throw"
            /\ outcome.error.class = "NothingToDoError"
            /\ SubSeq(outcome.error.message, 1, Len(locals.pkgJson.name.v))
                 = locals.pkgJson.name.v
       ELSE /\ outcome.kind = "return"
            /\ outcome.value.packageJson = locals.pkgJson

C1_Witness ==
  /\ pc = "done"
  /\ AllGatherersSucceeded
  /\ V2Manifest(locals.pkgJson)
  /\ outcome.kind = "throw"
  /\ outcome.error.class = "NothingToDoError"

\* C2: the steps are invoked in the order manifest read, repository-root
\* discovery, package-manager detection, import analysis, scratch-directory
\* creation, and none is invoked after one has failed; a construction that
\* returns no context has thrown one of the four taxonomy errors, raised by the
\* first failing step (NothingToDoError when every gatherer succeeded and the
\* manifest is a v2 addon), whichever step fails.
C2_FirstFailureOnly ==
  /\ Len(calls) <= Len(StepOrder)
  /\ \A k \in 1..Len(calls) : calls[k].fn = StepOrder[k]
  /\ \A k \in 1..(Len(calls) - 1) : calls[k].ok
  /\ (\E k \in 1..Len(calls) : ~calls[k].ok) => pc = "done"
  /\ (pc = "done" /\ outcome.kind # "return") =>
       /\ outcome.kind = "throw"
       /\ outcome.error.class \in Taxonomy
       /\ LET n == Len(calls)
          IN IF ~calls[n].ok
             THEN /\ n = 1 => outcome.error.class = "ManifestReadError"
                  /\ n = 2 => outcome.error.class = "RepoDiscoveryError"
                  /\ n = 3 => outcome.error.class = "PackageManagerError"
             ELSE /\ AllGatherersSucceeded
                  /\ outcome.error.class = "NothingToDoError"
                  /\ V2Manifest(locals.pkgJson)

\* C10: when construction is over, a scratch directory it created has been handed
\* to the caller: construction returned a context and its tmpLocation is that
\* directory.
C10_ScratchHandedOver ==
  (pc = "done" /\ CreatedScratch) =>
    /\ outcome.kind = "return"
    /\ tmpLocation(outcome.value) = Str(locals.tmpDirectory)

(***************************************************************************)
(* Claims about the classification getters, under SpecClassify             *)
(***************************************************************************)
\* C3: isV2Addon is true exactly when the manifest has an Ember marker, the
\* keyword 'ember-addon' and a version tag equal to 2; isV1Addon is true exactly
\* when it has the marker and the keyword and isV2Addon is false; the two are
\* never both true, exactly one is true when isAddon is, and without any marker
\* isAddon, isV1Addon and isV2Addon are all false.
C3_Classification ==
  \A i \in DOMAIN infos :
    LET info == infos[i]
        pj == info.packageJson
        a == last[i]
    IN /\ a.q = "isV2Addon" => a.result = JBool(V2Manifest(pj))
       /\ a.q = "isV1Addon" =>
            a.result = JBool(HasEmberMarker(pj) /\ HasAddonKeyword(pj) /\ ~isV2Addon(info).v)
       /\ ~(isV1Addon(info).v /\ isV2Addon(info).v)
       /\ isAddon(info).v => (isV1Addon(info).v # isV2Addon(info).v)
       /\ (~HasEmberMarker(pj) /\ a.q \in {"isAddon", "isV1Addon", "isV2Addon"}) =>
            a.result = JBool(FALSE)

C3_Witness ==
  \E i \in DOMAIN infos :
    /\ last[i].q = "isV2Addon"
    /\ last[i].result = JBool(TRUE)
    /\ pc = "constructed"

(***************************************************************************)
(* Claims about the path getters, under SpecPaths                          *)
(***************************************************************************)
\* the directory the test harness expects the addon of a monorepo in
packagePath == <<"package">>

\* C4: in a bigger monorepo addonLocation is the addonLocation option when one is
\* supplied, and otherwise the literal "package".
C4_BiggerMonorepoDefault ==
  \A i \in DOMAIN infos :
    (last[i].q = "addonLocation" /\ Differ(infos[i].packageManagerRoot, infos[i].gitRoot)) =>
      last[i].result = IF Supplied(infos[i].options.addonLocation)
                       THEN infos[i].options.addonLocation
                       ELSE Str(packagePath)

\* C5: in a solo repo addonLocation is the addonLocation option when one is
\* supplied; otherwise the base name of a scoped package name ("@scope/name" gives
\* "name") and the whole of an unscoped one.
C5_SoloAddonLocation ==
  \A i \in DOMAIN infos :
    (last[i].q = "addonLocation" /\ ~Differ(infos[i].packageManagerRoot, infos[i].gitRoot)) =>
      LET n == infos[i].packageJson.name.v
      IN last[i].result = IF Supplied(infos[i].options.addonLocation)
                          THEN infos[i].options.addonLocation
                          ELSE IF IsScoped(n) THEN Str(BaseOf(n)) ELSE Str(n)

C5_Witness ==
  \E i \in DOMAIN infos :
    /\ last[i].q = "addonLocation"
    /\ infos[i].packageManagerRoot = infos[i].gitRoot
    /\ ~Supplied(infos[i].options.addonLocation)
    /\ infos[i].packageJson.name.v = <<"@", "a", "b", "/", "b", "a">>
    /\ last[i].result = Str(<<"b", "a">>)

\* C6: testAppName is the testAppName option when one is supplied; otherwise, in a
\* bigger monorepo, "test-app-for-" followed by the package name without its
\* leading '@' and with its '/' replaced by "__"; otherwise "test-app".
C6_TestAppName ==
  \A i \in DOMAIN infos :
    last[i].q = "testAppName" =>
      LET n == infos[i].packageJson.name.v
      IN last[i].result =
           IF Supplied(infos[i].options.testAppName)
           THEN infos[i].options.testAppName
           ELSE IF Differ(infos[i].packageManagerRoot, infos[i].gitRoot)
                THEN IF IsScoped(n)
                     THEN Str(<<"test-app-for-">> \o ScopeOf(n) \o <<"__">> \o BaseOf(n))
                     ELSE Str(<<"test-app-for-">> \o n)
                ELSE Str(<<"test-app">>)

C6_Witness ==
  \E i \in DOMAIN infos :
    /\ last[i].q = "testAppName"
    /\ infos[i].packageManagerRoot # infos[i].gitRoot
    /\ ~Supplied(infos[i].options.testAppName)
    /\ infos[i].packageJson.name.v = <<"@", "a", "b", "/", "b">>
    /\ last[i].result = Str(<<"test-app-for-", "a", "b", "__", "b">>)

\* C8: isBiggerMonorepo is true exactly when the package-manager root and the
\* repository root differ as values.
C8_BiggerMonorepo ==
  \A i \in DOMAIN infos :
    last[i].q = "isBiggerMonorepo" =>
      last[i].result = JBool(Differ(infos[i].packageManagerRoot, infos[i].gitRoot))

C8_Witness ==
  \E i \in DOMAIN infos :
    /\ last[i].q = "isBiggerMonorepo"
    /\ last[i].result = JBool(TRUE)
    /\ Len(infos[i].packageManagerRoot) = Len(infos[i].gitRoot)

(***************************************************************************)
(* The claim about the dependency predicates, under SpecDeps               *)
(***************************************************************************)
\* C7: hasDependency(x) is true exactly when x is a key of the dependencies map,
\* and hasDevDependency(x) exactly when x is a key of the devDependencies map,
\* whatever the values stored and whatever the other map holds.
C7_KeyPresence ==
  \A i \in DOMAIN infos :
    LET pj == infos[i].packageJson
        a == last[i]
    IN /\ a.q = "hasDependency" =>
            a.result = JBool(pj.dependencies.t = "object" /\ a.arg \in DOMAIN pj.dependencies.v)
       /\ a.q = "hasDevDependency" =>
            a.result = JBool(pj.devDependencies.t = "object"
                             /\ a.arg \in DOMAIN pj.devDependencies.v)

(***************************************************************************)
(* The claim about the purity of the queries, under SpecQuery              *)
(***************************************************************************)
\* the contexts hold the facts they were constructed from
FactsUnchanged == \A i \in DOMAIN infos : infos[i] = AddonInfo(Resolved(locals, options))

\* C9, as claimed: two contexts holding the same facts give the same answer to
\* the same query, whatever the working directory of the process at the time of
\* each call and whatever was asked before; no query changes a stored fact.
C9_QueriesPure ==
  /\ FactsUnchanged
  /\ \A i \in DOMAIN infos, j \in DOMAIN infos :
       (infos[i] = infos[j] /\ last[i].q = last[j].q /\ last[i].arg = last[j].arg) =>
         last[i].result = last[j].result

\* C9, amended: the same, of every query but directory read without a directory
\* option, which gives the working directory of the process at the time of the call.
C9_QueriesPureButDirectory ==
  /\ FactsUnchanged
  /\ \A i \in DOMAIN infos, j \in DOMAIN infos :
       (/\ infos[i] = infos[j]
        /\ last[i].q = last[j].q
        /\ last[i].arg = last[j].arg
        /\ ~(last[i].q = "directory" /\ ~Supplied(infos[i].options.directory))) =>
         last[i].result = last[j].result

C9_Witness ==
  /\ DOMAIN infos = {1, 2}
  /\ last[1].q = "directory"
  /\ last[2].q = "directory"
  /\ Supplied(infos[1].options.directory)
  /\ last[1].result = infos[1].options.directory
  /\ cwd # <<"/", "r">>

====
